---- MODULE Spec2Model ----
(***************************************************************************)
(* embedded-ui-proxy: the JSON-RPC dispatcher (jsonrpc.py), the DuckDB     *)
(* store and the system monitor (monitor.py), the reverse proxy            *)
(* (proxy.py) and the routes and process lifecycle (main.py), as a state   *)
(* machine of asyncio tasks on one event loop.                             *)
(*                                                                         *)
(* A step of the model is a piece of code that runs between two            *)
(* suspension points of the event loop.  The variable cur names the task   *)
(* that holds the loop thread: a task resumes from an await only when cur  *)
(* is "idle", and keeps cur while it continues without suspending.         *)
(***************************************************************************)
EXTENDS Integers, Sequences, FiniteSets, TLC

VARIABLES
    cur,          \* the task running on the event loop, or "idle"
    db,           \* DuckDBManager: [conn, hasTable, rows, inTxn]
    opens,        \* number of duckdb.connect calls so far
    closes,       \* number of DuckDBManager.close calls so far
    rpcPc,        \* position of the handle_rpc call
    rpcBody,      \* the request body of the handle_rpc call
    rpcIdx,       \* index of the element the batch loop is at
    responses,    \* handle_rpc's local list `responses`
    inflight,     \* elements whose handler was called and has not returned
    invoked,      \* elements whose handler was called, in call order
    returned,     \* what _handle_single_request returned, per element, in order
    httpResp,     \* the web.Response handle_rpc returned
    monitoring,   \* SystemMonitor.monitoring
    loops,        \* start_monitoring coroutines: [pc, last] of each
    mainPc,       \* position of main()
    shutdown,     \* main()'s shutdown_event
    proxy,        \* ProxyHandler: [arg, remote_url]
    pxPc,         \* position of the inbound HTTP request being routed or proxied
    pxReq,        \* the inbound HTTP request
    handler,      \* the handler the router resolved the request to
    outbound,     \* the requests sent upstream for it, in order
    upstream,     \* what upstream did with them, in order
    pxResp        \* the web.Response handle_proxy returned

rpcVars == <<rpcPc, rpcBody, rpcIdx, responses, inflight, invoked, returned, httpResp>>
dbVars == <<db, opens, closes>>
monVars == <<monitoring, loops>>
mainVars == <<mainPc, shutdown>>
proxyVars == <<proxy, pxPc, pxReq, handler, outbound, upstream, pxResp>>
vars == <<cur, db, opens, closes, rpcPc, rpcBody, rpcIdx, responses, inflight,
          invoked, returned, httpResp, monitoring, loops, mainPc, shutdown,
          proxy, pxPc, pxReq, handler, outbound, upstream, pxResp>>

(***************************************************************************)
(* Bounds of the model.                                                    *)
(***************************************************************************)
MaxBatch == 3     \* longest batch array
MaxRows == 2      \* rows the store holds before an insert fails
MaxTime == 2      \* distinct values datetime.now() takes
MaxLoops == 2     \* start_monitoring coroutines a harness creates
MaxHeaders == 2   \* header fields of a request or of an upstream response
MaxOpens == 2     \* times a harness opens the store on one path

(***************************************************************************)
(* JSON values.  t is the Python type json.loads gives, s the text of a    *)
(* string or number, sql the value under the key "sql" of an object        *)
(* (<<>> when the object has no such key).                                 *)
(***************************************************************************)
JNull == [t |-> "null", s |-> "", sql |-> <<>>]
JStr(x) == [t |-> "str", s |-> x, sql |-> <<>>]
JNum(x) == [t |-> "num", s |-> x, sql |-> <<>>]
JList == [t |-> "list", s |-> "", sql |-> <<>>]
JDict(sqlopt) == [t |-> "dict", s |-> "", sql |-> sqlopt]

\* A request object: has is the set of keys present.
ReqObj(has, j, m, p, i) ==
    [isDict |-> TRUE, has |-> has,
     jsonrpc |-> IF "jsonrpc" \in has THEN j ELSE JNull,
     method |-> IF "method" \in has THEN m ELSE JNull,
     params |-> IF "params" \in has THEN p ELSE JNull,
     id |-> IF "id" \in has THEN i ELSE JNull]

\* An element that is not a JSON object (a number, a string, null, an array).
NotObj ==
    [isDict |-> FALSE, has |-> {}, jsonrpc |-> JNull, method |-> JNull,
     params |-> JNull, id |-> JNull]

\* dict.get(key): None when the key is absent.
Get(data, key) == IF key \in data.has THEN data[key] ELSE JNull

(***************************************************************************)
(* The store.  A cell is [ty, v]: ty the Python type fetchall returns.     *)
(***************************************************************************)
SqlSelect1 == "SELECT 1"
SqlSelectMetrics == "SELECT * FROM system_metrics"
SqlSelectDate == "SELECT CURRENT_DATE"
SqlSelectDecimal == "SELECT CAST(1 AS DECIMAL(3,1))"
SqlBad == "SELEC"
SqlDelete == "DELETE FROM system_metrics"
SqlBegin == "BEGIN TRANSACTION"

Cell(ty, v) == [ty |-> ty, v |-> v]

NoResult == [columns |-> <<>>, rows |-> <<>>]

\* conn.commit(): ends the transaction the connection is in, if any.
commit(d) == [d EXCEPT !.inTxn = FALSE]

\* The database file at db_path before it is opened: without the metrics
\* table, or with the table and the rows an earlier run left.
NewFile == [conn |-> "none", hasTable |-> FALSE, rows |-> <<>>, inTxn |-> FALSE]

File(rows) == [conn |-> "none", hasTable |-> TRUE, rows |-> rows, inTxn |-> FALSE]

\* DuckDBManager with CREATE OR REPLACE TABLE in _init_tables: every open
\* starts from an empty table.
DuckDBManager_recreate(file) ==
    commit([file EXCEPT !.conn = "open", !.hasTable = TRUE, !.rows = <<>>])

\* DuckDBManager.__init__: duckdb.connect(db_path), then _init_tables:
\* CREATE TABLE IF NOT EXISTS and a commit.
DuckDBManager(file) ==
    commit([file EXCEPT !.conn = "open", !.hasTable = TRUE,
                        !.rows = IF file.hasTable THEN @ ELSE <<>>])

\* The row insert_metrics writes.
MetricRow(now, cpu_percent, memory_percent, memory_mb) ==
    <<Cell("datetime", now), Cell("float", cpu_percent),
      Cell("float", memory_percent), Cell("float", memory_mb)>>

\* insert_metrics writing its row over the table instead of appending it.
insert_metrics_replace(d, now, cpu_percent, memory_percent, memory_mb) ==
    IF d.conn = "open" /\ d.hasTable /\ Len(d.rows) < MaxRows
    THEN [ok |-> TRUE,
          db |-> commit([d EXCEPT !.rows =
                    <<MetricRow(now, cpu_percent, memory_percent, memory_mb)>>])]
    ELSE [ok |-> FALSE, db |-> d]

\* insert_metrics: one INSERT and one commit.  ok is FALSE when the
\* statement raises (closed connection, store full); nothing is written then.
insert_metrics(d, now, cpu_percent, memory_percent, memory_mb) ==
    IF d.conn = "open" /\ d.hasTable /\ Len(d.rows) < MaxRows
    THEN [ok |-> TRUE,
          db |-> commit([d EXCEPT !.rows =
                    Append(@, MetricRow(now, cpu_percent, memory_percent, memory_mb))])]
    ELSE [ok |-> FALSE, db |-> d]

\* conn.execute(query) followed by fetchall() and cursor.description:
\* what the engine does with each statement.  described is FALSE when the
\* cursor has no description to iterate; for a statement without a result
\* set that is the engine's choice, given as desc.
conn_execute(d, query, desc) ==
    IF d.conn # "open" \/ query = SqlBad
    THEN [raised |-> TRUE, described |-> FALSE, columns |-> <<>>, rows |-> <<>>, db |-> d]
    ELSE IF query = SqlSelect1
    THEN [raised |-> FALSE, described |-> TRUE, columns |-> <<"1">>,
          rows |-> <<<<Cell("int", 1)>>>>, db |-> d]
    ELSE IF query = SqlSelectDate
    THEN [raised |-> FALSE, described |-> TRUE, columns |-> <<"current_date">>,
          rows |-> <<<<Cell("date", 1)>>>>, db |-> d]
    ELSE IF query = SqlSelectDecimal
    THEN [raised |-> FALSE, described |-> TRUE, columns |-> <<"decimal">>,
          rows |-> <<<<Cell("decimal", 1)>>>>, db |-> d]
    ELSE IF query = SqlSelectMetrics
    THEN [raised |-> ~d.hasTable, described |-> TRUE,
          columns |-> <<"timestamp", "cpu_percent", "memory_percent", "memory_mb">>,
          rows |-> d.rows, db |-> d]
    ELSE IF query = SqlDelete
    THEN [raised |-> ~d.hasTable, described |-> TRUE, columns |-> <<"Count">>,
          rows |-> <<<<Cell("int", Len(d.rows))>>>>,
          db |-> IF d.hasTable THEN [d EXCEPT !.rows = <<>>] ELSE d]
    ELSE \* SqlBegin: a second BEGIN inside a transaction raises
         [raised |-> d.inTxn, described |-> desc, columns |-> <<>>, rows |-> <<>>,
          db |-> [d EXCEPT !.inTxn = TRUE]]

\* ConvertCell without the isinstance(cell, datetime) branch.
ConvertCell_as_is(cell) == cell

\* The cell conversion of execute_query: datetime -> isoformat text.
ConvertCell(cell) ==
    IF cell.ty = "datetime" THEN Cell("str", cell.v) ELSE cell

ConvertRow(row) == [i \in 1..Len(row) |-> ConvertCell(row[i])]

\* execute_query(query): the statement, then the conversion; any exception
\* becomes ValueError("Query execution failed: ...").  No commit follows.
execute_query(d, query, desc) ==
    LET r == conn_execute(d, query, desc) IN
    IF r.raised \/ ~r.described
    THEN [kind |-> "error", message |-> "Query execution failed",
          result |-> NoResult, db |-> r.db]
    ELSE [kind |-> "ok", message |-> "",
          result |-> [columns |-> r.columns,
                      rows |-> [i \in 1..Len(r.rows) |-> ConvertRow(r.rows[i])]],
          db |-> r.db]

\* The files a run may find at db_path.
Files == {NewFile, File(<<MetricRow(1, 10, 30, 4)>>)}

\* DuckDBManager.close.
close(d) == [d EXCEPT !.conn = "closed", !.inTxn = FALSE]

(***************************************************************************)
(* The JSON-RPC dispatcher.  A response object is                          *)
(* [kind, code, message, id, result]; None is the empty sequence.          *)
(***************************************************************************)
\* The registry create_app fills: register_method("query", query_method).
methods == {"query"}

error_dict(request_id, code, message) ==
    [kind |-> "error", code |-> code, message |-> message, id |-> request_id,
     result |-> NoResult]

result_dict(request_id, result) ==
    [kind |-> "result", code |-> 0, message |-> "", id |-> request_id,
     result |-> result]

\* _handle_single_request up to the handler call: <<>> when every check
\* passes, else the error response of the first failing check.
Validate(data) ==
    IF ~data.isDict
    THEN <<error_dict(JNull, -32600, "Invalid Request")>>
    ELSE LET jsonrpc == Get(data, "jsonrpc")
             method == Get(data, "method")
             params == Get(data, "params")
             request_id == Get(data, "id")
         IN  IF jsonrpc # JStr("2.0")
             THEN <<error_dict(request_id, -32600, "Invalid Request")>>
             ELSE IF method.t # "str"
             THEN <<error_dict(request_id, -32600, "Invalid Request")>>
             ELSE IF method.s \notin methods
             THEN <<error_dict(request_id, -32601, "Method not found")>>
             ELSE IF params.t # "null" /\ params.t \notin {"dict", "list"}
             THEN <<error_dict(request_id, -32602, "Invalid params")>>
             ELSE <<>>

\* query_method(params): InvalidParamsError unless params is an object with
\* the key "sql", else the store's execute_query.
query_method(params, d, desc) ==
    IF params.t # "dict" \/ params.sql = <<>>
    THEN [kind |-> "invalid_params",
          message |-> "Invalid params: 'sql' parameter is required",
          result |-> NoResult, db |-> d]
    ELSE execute_query(d, params.sql[1], desc)

\* HandlerResponse with one except clause for every exception: the
\* invalid-params condition is answered like any other failure.
HandlerResponse_one_except(data, out) ==
    IF "id" \notin data.has THEN <<>>
    ELSE IF out.kind = "ok" THEN <<result_dict(Get(data, "id"), out.result)>>
    ELSE <<error_dict(Get(data, "id"), -32603, out.message)>>

\* HandlerResponse with `request_id is None` as the notification test: an
\* id that is null counts as no id.
HandlerResponse_id_is_none(data, out) ==
    IF Get(data, "id") = JNull THEN <<>>
    ELSE IF out.kind = "ok" THEN <<result_dict(Get(data, "id"), out.result)>>
    ELSE IF out.kind = "invalid_params"
    THEN <<error_dict(Get(data, "id"), -32602, out.message)>>
    ELSE <<error_dict(Get(data, "id"), -32603, out.message)>>

\* _handle_single_request after the handler call: the response for the
\* handler's outcome, None for a request without the key "id".
HandlerResponse(data, out) ==
    IF out.kind = "ok"
    THEN IF "id" \notin data.has THEN <<>>
         ELSE <<result_dict(Get(data, "id"), out.result)>>
    ELSE IF out.kind = "invalid_params"
    THEN IF "id" \notin data.has THEN <<>>
         ELSE <<error_dict(Get(data, "id"), -32602, out.message)>>
    ELSE IF "id" \notin data.has THEN <<>>
         ELSE <<error_dict(Get(data, "id"), -32603, out.message)>>

\* json.dumps with DecimalEncoder: the types json encodes itself, and the
\* two DecimalEncoder.default converts; any other type raises TypeError.
NativeJson == {"null", "bool", "int", "float", "str"}

CanEncode(cell) == cell.ty \in NativeJson \/ cell.ty \in {"decimal", "datetime"}

EncodeCell(cell) ==
    IF cell.ty = "decimal" THEN Cell("float", cell.v)
    ELSE IF cell.ty = "datetime" THEN Cell("str", cell.v)
    ELSE cell

CanDump(resp) ==
    \A i \in 1..Len(resp.result.rows) :
        \A j \in 1..Len(resp.result.rows[i]) : CanEncode(resp.result.rows[i][j])

Dump(resp) ==
    [resp EXCEPT !.result.rows =
        [i \in 1..Len(@) |-> [j \in 1..Len(@[i]) |-> EncodeCell(@[i][j])]]]

NoResponse == [status |-> 0, isArray |-> FALSE, body |-> <<>>]

\* web.Response(status=204)
NoContent == [status |-> 204, isArray |-> FALSE, body |-> <<>>]

\* _error_response: web.json_response(_error_dict(...))
error_response(request_id, code, message) ==
    [status |-> 200, isArray |-> FALSE,
     body |-> <<error_dict(request_id, code, message)>>]

\* json_response outside any try: the encoder's TypeError leaves
\* handle_rpc, and no response is built.
json_response_uncaught(objs, isArray) ==
    IF \A i \in 1..Len(objs) : CanDump(objs[i])
    THEN [status |-> 200, isArray |-> isArray,
          body |-> [i \in 1..Len(objs) |-> Dump(objs[i])]]
    ELSE NoResponse

\* web.json_response(obj, dumps=...) inside handle_rpc's outer try: a
\* TypeError of the encoder is caught there and becomes -32603.
json_response(objs, isArray) ==
    IF \A i \in 1..Len(objs) : CanDump(objs[i])
    THEN [status |-> 200, isArray |-> isArray,
          body |-> [i \in 1..Len(objs) |-> Dump(objs[i])]]
    ELSE error_response(JNull, -32603, "Internal error")

\* The end of handle_rpc: the batch branch and the single-request branch.
Respond(body, resps) ==
    IF Len(resps) = 0 THEN NoContent
    ELSE json_response(resps, body.kind = "batch")

(***************************************************************************)
(* Request bodies.  kind is "badjson" (json.JSONDecodeError), "badtext"    *)
(* (request.json() raises another exception), "single" or "batch".         *)
(***************************************************************************)
Body(kind, elems) == [kind |-> kind, elems |-> elems]

Sqls == {SqlSelect1, SqlSelectMetrics, SqlSelectDate, SqlSelectDecimal, SqlBad,
         SqlDelete, SqlBegin}

AllKeys == {"jsonrpc", "method", "params", "id"}

ParamValues ==
    {JNull, JStr("x"), JList, JDict(<<>>)} \cup {JDict(<<q>>) : q \in Sqls}

\* Every request object over the small value sets.
RequestObjects ==
    {ReqObj(has, j, m, p, i) :
        has \in SUBSET AllKeys,
        j \in {JStr("2.0"), JStr("1.0")},
        m \in {JStr("query"), JStr("nope"), JNum("1")},
        p \in ParamValues,
        i \in {JNull, JNum("7")}}

Query(q, has) == ReqObj(has, JStr("2.0"), JStr("query"), JDict(<<q>>), JNum("7"))

\* The elements batches are built from.
BatchElements ==
    {Query(SqlSelect1, AllKeys),
     Query(SqlSelect1, AllKeys \ {"id"}),
     Query(SqlBad, AllKeys),
     Query(SqlSelectDate, AllKeys),
     ReqObj(AllKeys \ {"id"}, JStr("2.0"), JStr("nope"), JNull, JNull),
     ReqObj(AllKeys, JStr("2.0"), JStr("query"), JDict(<<>>), JStr("a")),
     NotObj}

RECURSIVE SeqsUpTo(_, _)
SeqsUpTo(S, n) ==
    IF n = 0 THEN {<<>>}
    ELSE LET shorter == SeqsUpTo(S, n - 1) IN
         shorter \cup {Append(q, x) : q \in {r \in shorter : Len(r) = n - 1}, x \in S}

RpcBodies ==
    {Body("badjson", <<>>), Body("badtext", <<>>)}
    \cup {Body("single", <<e>>) : e \in RequestObjects \cup {NotObj}}
    \cup {Body("batch", b) : b \in SeqsUpTo(BatchElements, MaxBatch)}

(***************************************************************************)
(* handle_rpc, one call at a time.  request.json() is its one await that   *)
(* suspends; query_method awaits nothing, so from the parsed body to the   *)
(* returned response the call keeps the event loop.                        *)
(***************************************************************************)
RpcIdle ==
    /\ rpcPc = "idle" /\ rpcBody = Body("none", <<>>) /\ rpcIdx = 0
    /\ responses = <<>> /\ inflight = {} /\ invoked = <<>> /\ returned = <<>>
    /\ httpResp = NoResponse

\* The record of one _handle_single_request call: the element's index,
\* whether the handler was called, the handler's outcome, the value returned.
Returned(i, called, out, resp) ==
    [idx |-> i, called |-> called, out |-> out, resp |-> resp]

\* A POST /rpc arrives: handle_rpc starts and awaits request.json().
RpcArrive(body) ==
    /\ rpcPc = "idle"
    /\ rpcPc' = "reading"
    /\ rpcBody' = body
    /\ UNCHANGED <<rpcIdx, responses, inflight, invoked, returned, httpResp>>
    /\ UNCHANGED <<cur, dbVars, monVars, mainVars, proxyVars>>

\* request.json() returns or raises; the empty-batch check; the loop starts.
RpcRead ==
    /\ rpcPc = "reading" /\ cur = "idle"
    /\ IF rpcBody.kind = "badjson"
       THEN /\ httpResp' = error_response(JNull, -32700, "Parse error")
            /\ rpcPc' = "done" /\ cur' = "idle" /\ rpcIdx' = rpcIdx
       ELSE IF rpcBody.kind = "badtext"
       THEN /\ httpResp' = error_response(JNull, -32603, "Internal error")
            /\ rpcPc' = "done" /\ cur' = "idle" /\ rpcIdx' = rpcIdx
       ELSE IF rpcBody.kind = "batch" /\ Len(rpcBody.elems) = 0
       THEN /\ httpResp' = error_response(JNull, -32600, "Invalid Request")
            /\ rpcPc' = "done" /\ cur' = "idle" /\ rpcIdx' = rpcIdx
       ELSE /\ rpcPc' = "loop" /\ cur' = "rpc" /\ rpcIdx' = 1
            /\ httpResp' = httpResp
    /\ UNCHANGED <<rpcBody, responses, inflight, invoked, returned>>
    /\ UNCHANGED <<dbVars, monVars, mainVars, proxyVars>>

\* RpcElement with the handler called but not awaited: the loop moves on
\* to the next element while the handler is still running.
RpcElementNoAwait ==
    /\ rpcPc = "loop" /\ cur = "rpc" /\ rpcIdx <= Len(rpcBody.elems)
    /\ LET v == Validate(rpcBody.elems[rpcIdx]) IN
       IF v # <<>>
       THEN /\ responses' = responses \o v
            /\ returned' = Append(returned, Returned(rpcIdx, FALSE, "rejected", v))
            /\ UNCHANGED <<inflight, invoked>>
       ELSE /\ inflight' = inflight \cup {rpcIdx}
            /\ invoked' = Append(invoked, rpcIdx)
            /\ UNCHANGED <<responses, returned>>
    /\ rpcIdx' = rpcIdx + 1
    /\ UNCHANGED <<rpcPc, rpcBody, httpResp>>
    /\ UNCHANGED <<cur, dbVars, monVars, mainVars, proxyVars>>

\* RpcElement with the `"id" not in data` test before the handler call: a
\* notification returns None without its handler being called.
RpcElementSkipNotification ==
    /\ rpcPc = "loop" /\ cur = "rpc" /\ rpcIdx <= Len(rpcBody.elems)
    /\ LET v == Validate(rpcBody.elems[rpcIdx]) IN
       IF v # <<>>
       THEN /\ responses' = responses \o v
            /\ returned' = Append(returned, Returned(rpcIdx, FALSE, "rejected", v))
            /\ rpcIdx' = rpcIdx + 1
            /\ UNCHANGED <<rpcPc, inflight, invoked>>
       ELSE IF "id" \notin rpcBody.elems[rpcIdx].has
       THEN /\ returned' = Append(returned, Returned(rpcIdx, FALSE, "skipped", <<>>))
            /\ rpcIdx' = rpcIdx + 1
            /\ UNCHANGED <<rpcPc, responses, inflight, invoked>>
       ELSE /\ inflight' = inflight \cup {rpcIdx}
            /\ invoked' = Append(invoked, rpcIdx)
            /\ rpcPc' = "handler"
            /\ UNCHANGED <<responses, rpcIdx, returned>>
    /\ UNCHANGED <<rpcBody, httpResp>>
    /\ UNCHANGED <<cur, dbVars, monVars, mainVars, proxyVars>>

\* _handle_single_request on the next element, up to `await handler(params)`:
\* a failed check appends its error response, else the handler is called and
\* the loop waits for it.
RpcElement ==
    /\ rpcPc = "loop" /\ cur = "rpc" /\ rpcIdx <= Len(rpcBody.elems)
    /\ LET v == Validate(rpcBody.elems[rpcIdx]) IN
       IF v # <<>>
       THEN /\ responses' = responses \o v
            /\ returned' = Append(returned, Returned(rpcIdx, FALSE, "rejected", v))
            /\ rpcIdx' = rpcIdx + 1
            /\ UNCHANGED <<rpcPc, inflight, invoked>>
       ELSE /\ inflight' = inflight \cup {rpcIdx}
            /\ invoked' = Append(invoked, rpcIdx)
            /\ rpcPc' = "handler"
            /\ UNCHANGED <<responses, rpcIdx, returned>>
    /\ UNCHANGED <<rpcBody, httpResp>>
    /\ UNCHANGED <<cur, dbVars, monVars, mainVars, proxyVars>>

\* What cursor.description may be for the statement params carries.
DescChoices(params) ==
    IF params.sql = <<SqlBegin>> THEN BOOLEAN ELSE {TRUE}

\* The handler runs to its end (query_method and the store operation in it)
\* and _handle_single_request builds the response; the loop moves on.
RpcHandlerReturn ==
    /\ cur = "rpc" /\ inflight # {}
    /\ \E i \in inflight :
         LET data == rpcBody.elems[i] IN
         \E desc \in DescChoices(Get(data, "params")) :
            LET out == query_method(Get(data, "params"), db, desc) IN
            /\ db' = out.db
            /\ responses' = responses \o HandlerResponse(data, out)
            /\ inflight' = inflight \ {i}
            /\ returned' = Append(returned,
                    Returned(i, TRUE, out.kind, HandlerResponse(data, out)))
    /\ rpcPc' = "loop"
    /\ rpcIdx' = IF rpcPc = "handler" THEN rpcIdx + 1 ELSE rpcIdx
    /\ UNCHANGED <<rpcBody, invoked, httpResp>>
    /\ UNCHANGED <<cur, opens, closes, monVars, mainVars, proxyVars>>

\* After the last element: 204 when nothing was collected, else the JSON
\* body; handle_rpc returns.
RpcRespond ==
    /\ rpcPc = "loop" /\ cur = "rpc" /\ rpcIdx > Len(rpcBody.elems)
    /\ inflight = {}
    /\ httpResp' = Respond(rpcBody, responses)
    /\ rpcPc' = "done"
    /\ cur' = "idle"
    /\ UNCHANGED <<rpcBody, rpcIdx, responses, inflight, invoked, returned>>
    /\ UNCHANGED <<dbVars, monVars, mainVars, proxyVars>>

\* The response is sent; the next request may arrive.
RpcSent ==
    /\ rpcPc = "done"
    /\ rpcPc' = "idle" /\ rpcBody' = Body("none", <<>>) /\ rpcIdx' = 0
    /\ responses' = <<>> /\ inflight' = {} /\ invoked' = <<>> /\ returned' = <<>>
    /\ httpResp' = NoResponse
    /\ UNCHANGED <<cur, dbVars, monVars, mainVars, proxyVars>>

(***************************************************************************)
(* The router of create_app and ProxyHandler (proxy.py).  A URL, a path    *)
(* and a query string are sequences of tokens, "/" and "?" being tokens    *)
(* of their own; a header list is a sequence of <<name, value>> pairs, as  *)
(* a multidict's items(); a dict is a sequence of pairs with distinct      *)
(* keys, in insertion order.  A body is [coding, data]: coding is the      *)
(* content coding the data is in, "identity" for the plain data, "text"    *)
(* for a text body built by the handler.                                   *)
(***************************************************************************)
\* str.rstrip("/") without the strip: the text as it is.
no_rstrip(s) == s

\* str.rstrip("/"): every trailing "/" is removed.
RECURSIVE rstrip(_)
rstrip(s) ==
    IF Len(s) > 0 /\ s[Len(s)] = "/" THEN rstrip(SubSeq(s, 1, Len(s) - 1)) ELSE s

\* ProxyHandler.__init__(remote_url)
ProxyHandler(remote_url) == [arg |-> remote_url, remote_url |-> rstrip(remote_url)]

\* str.lower() on the header names of the model.
lower(k) ==
    CASE k = "Host" -> "host"
      [] k = "CONTENT-LENGTH" -> "content-length"
      [] k = "Accept" -> "accept"
      [] k = "Content-Encoding" -> "content-encoding"
      [] k = "Transfer-Encoding" -> "transfer-encoding"
      [] k = "Set-Cookie" -> "set-cookie"
      [] OTHER -> k

\* d[k] = v on a dict: a key already there keeps its place and takes the
\* new value.
dict_set(d, k, v) ==
    IF \E j \in 1..Len(d) : d[j][1] = k
    THEN [j \in 1..Len(d) |-> IF d[j][1] = k THEN <<k, v>> ELSE d[j]]
    ELSE Append(d, <<k, v>>)

\* {k: v for k, v in items}
RECURSIVE dict_of(_)
dict_of(items) ==
    IF items = <<>> THEN <<>>
    ELSE dict_set(dict_of(SubSeq(items, 1, Len(items) - 1)),
                  items[Len(items)][1], items[Len(items)][2])

IsRequestHeaderCopied(h) == lower(h[1]) \notin {"host", "content-length"}

IsResponseHeaderCopied(h) ==
    lower(h[1]) \notin {"content-encoding", "content-length", "transfer-encoding"}

\* headers = {k: v for k, v in request.headers.items() if k.lower() not in (...)}
headers(items) == dict_of(SelectSeq(items, IsRequestHeaderCopied))

\* response_headers = {k: v for k, v in resp.headers.items() if k.lower() not in (...)}
response_headers(items) == dict_of(SelectSeq(items, IsResponseHeaderCopied))

Request(method, path, qs, hs, body, readable) ==
    [method |-> method, path |-> path, qs |-> qs, headers |-> hs, body |-> body,
     readable |-> readable]

NoRequest == Request("", <<>>, <<>>, <<>>, <<>>, TRUE)

\* request.path_qs
path_qs(request) == request.path \o request.qs

\* target_url = f"{self.remote_url}{request.path_qs}"
target_url(self, request) == self.remote_url \o path_qs(request)

\* The application's routes, in the order create_app registers them:
\* add_post("/rpc", ...) and add_route("*", "/{path:.*}", ...).
Resources ==
    <<[kind |-> "plain", path |-> <<"/", "rpc">>, method |-> "POST",
       handler |-> "handle_rpc"],
      [kind |-> "dynamic", path |-> <<"/">>, method |-> "*",
       handler |-> "handle_proxy"]>>

\* Does the resource's path pattern match the path: a plain resource the
\* whole path, "/{path:.*}" every path.
resource_match(res, path) ==
    IF res.kind = "plain" THEN path = res.path
    ELSE Len(path) >= 1 /\ path[1] = "/"

route_match(res, method) == res.method = "*" \/ res.method = method

\* resolve that stops at the first resource whose path matches: a method
\* that resource has no route for is answered 405.
resolve_first_resource(method, path) ==
    LET hits == {i \in 1..Len(Resources) : resource_match(Resources[i], path)} IN
    IF hits = {} THEN "404"
    ELSE LET i == CHOOSE i \in hits : \A j \in hits : i <= j IN
         IF route_match(Resources[i], method) THEN Resources[i].handler ELSE "405"

\* The router's resolve: the first resource, in registration order, whose
\* path and method both match; 405 or 404 when there is none.
resolve(method, path) ==
    LET hits == {i \in 1..Len(Resources) :
                    /\ resource_match(Resources[i], path)
                    /\ route_match(Resources[i], method)} IN
    IF hits # {}
    THEN Resources[CHOOSE i \in hits : \A j \in hits : i <= j].handler
    ELSE IF \E i \in 1..Len(Resources) : resource_match(Resources[i], path)
    THEN "405" ELSE "404"

Data(coding, data) == [coding |-> coding, data |-> data]

NoData == Data("identity", "")

\* What upstream does with a request: a response [status, headers, body]
\* (readable FALSE when reading its body fails), an aiohttp.ClientError, or
\* another exception (asyncio.TimeoutError is one).
Outcome(kind, text, status, hs, body, readable) ==
    [kind |-> kind, text |-> text, status |-> status, headers |-> hs, body |-> body,
     readable |-> readable]

\* resp.read(): the client undoes the content coding of the body.
read(body) == Data("identity", body.data)

HttpResponse(status, hs, body) == [status |-> status, headers |-> hs, body |-> body]

NoHttpResponse == HttpResponse(0, <<>>, NoData)

\* A handler that lets every exception but aiohttp.ClientError leave it.
proxy_error_client_only(e) ==
    IF e.kind = "client_error"
    THEN HttpResponse(502, <<<<"Content-Type", "text/plain; charset=utf-8">>>>,
                      Data("text", <<"Proxy error: ", e.text>>))
    ELSE NoHttpResponse

\* except aiohttp.ClientError / except Exception:
\* web.Response(text=f"Proxy error: {str(e)}", status=502)
proxy_error(e) ==
    HttpResponse(502, <<<<"Content-Type", "text/plain; charset=utf-8">>>>,
                 Data("text", <<"Proxy error: ", e.text>>))

\* session.request(...) that follows redirects.
follow_redirects == TRUE

\* session.request(..., allow_redirects=False)
allow_redirects == FALSE

\* web.Response(body=body, status=resp.status, headers=response_headers)
relay(resp) == HttpResponse(resp.status, response_headers(resp.headers), read(resp.body))

(***************************************************************************)
(* Inbound requests and upstream outcomes.                                 *)
(***************************************************************************)
Bases == {<<"http://u">>, <<"http://u", "/">>, <<"http://u", "/", "/">>}

Methods == {"GET", "POST", "DELETE"}

Paths == {<<"/">>, <<"/", "rpc">>, <<"/", "rpc", "/">>, <<"/", "foo">>}

Queries == {<<>>, <<"?", "x=1">>}

RequestFields ==
    {<<"Host", "h">>, <<"CONTENT-LENGTH", "1">>, <<"Accept", "a">>, <<"Accept", "b">>}

ResponseFields ==
    {<<"Content-Encoding", "gzip">>, <<"content-length", "1">>,
     <<"Transfer-Encoding", "chunked">>, <<"Set-Cookie", "a">>, <<"Set-Cookie", "b">>}

\* Every method on every path, without headers or body; and one route with
\* every header list, without and with a body, the body's read failing or not.
InboundRequests ==
    {Request(m, p, q, <<>>, <<>>, TRUE) : m \in Methods, p \in Paths, q \in Queries}
    \cup {Request("POST", <<"/", "foo">>, <<>>, hs, b[1], b[2]) :
            hs \in SeqsUpTo(RequestFields, MaxHeaders),
            b \in {<<<<>>, TRUE>>, <<<<"b">>, TRUE>>, <<<<"b">>, FALSE>>}}

IsCoded(hs) == \E i \in 1..Len(hs) : lower(hs[i][1]) = "content-encoding"

UpstreamOutcomes ==
    {Outcome("response", "", 200, hs,
             Data(IF IsCoded(hs) THEN "gzip" ELSE "identity", "page"), TRUE) :
        hs \in SeqsUpTo(ResponseFields, MaxHeaders)}
    \cup {Outcome("response", "", st, <<>>, NoData, TRUE) : st \in {204, 302, 404, 500}}
    \cup {Outcome("response", "", 200, <<>>, Data("identity", "page"), FALSE),
          Outcome("client_error", "Cannot connect to host", 0, <<>>, NoData, TRUE),
          Outcome("exception", "timeout", 0, <<>>, NoData, TRUE)}

(***************************************************************************)
(* One inbound HTTP request at a time: the router, then handle_proxy.      *)
(***************************************************************************)
ProxyIdle ==
    /\ pxPc = "idle" /\ pxReq = NoRequest /\ handler = "none"
    /\ outbound = <<>> /\ upstream = <<>> /\ pxResp = NoHttpResponse

\* A request arrives and the router resolves it to its handler.
HttpArrive(request) ==
    /\ pxPc = "idle"
    /\ pxReq' = request
    /\ handler' = resolve(request.method, request.path)
    /\ pxPc' = IF handler' = "handle_proxy" THEN "proxy" ELSE "routed"
    /\ UNCHANGED <<proxy, outbound, upstream, pxResp>>
    /\ UNCHANGED <<cur, dbVars, rpcVars, monVars, mainVars>>

\* A request resolved to another handler than handle_proxy is that
\* handler's; ProxyHandler has no part in it.
RoutedAway ==
    /\ pxPc = "routed"
    /\ pxPc' = "idle" /\ pxReq' = NoRequest /\ handler' = "none"
    /\ UNCHANGED <<proxy, outbound, upstream, pxResp>>
    /\ UNCHANGED <<cur, dbVars, rpcVars, monVars, mainVars>>

\* handle_proxy up to the upstream request: the target URL, the session,
\* the copied headers, the inbound body, then session.request(...).  A
\* failed read of the inbound body is answered 502.
ProxyForward ==
    /\ pxPc = "proxy"
    /\ IF pxReq.body # <<>> /\ ~pxReq.readable
       THEN /\ pxResp' = proxy_error(Outcome("exception", "read", 0, <<>>, NoData, TRUE))
            /\ pxPc' = "done"
            /\ outbound' = outbound
       ELSE /\ outbound' = Append(outbound,
                    [method |-> pxReq.method, url |-> target_url(proxy, pxReq),
                     headers |-> headers(pxReq.headers), data |-> pxReq.body])
            /\ pxPc' = "awaiting"
            /\ pxResp' = pxResp
    /\ UNCHANGED <<proxy, pxReq, handler, upstream>>
    /\ UNCHANGED <<cur, dbVars, rpcVars, monVars, mainVars>>

\* Upstream answers or the request fails: a redirect is followed only when
\* allow_redirects; else the body is read and the response relayed, and
\* every exception is answered 502.
UpstreamAnswers ==
    /\ pxPc = "awaiting"
    /\ \E o \in UpstreamOutcomes :
          /\ upstream' = Append(upstream, o)
          /\ IF o.kind # "response"
             THEN /\ pxResp' = proxy_error(o)
                  /\ pxPc' = "done" /\ outbound' = outbound
             ELSE IF allow_redirects /\ o.status \in 300..399 /\ Len(outbound) < 2
             THEN /\ outbound' = Append(outbound, outbound[1])
                  /\ pxPc' = "awaiting" /\ pxResp' = pxResp
             ELSE /\ pxResp' = IF o.readable THEN relay(o)
                               ELSE proxy_error(Outcome("client_error",
                                        "Response payload is not completed",
                                        0, <<>>, NoData, TRUE))
                  /\ pxPc' = "done" /\ outbound' = outbound
    /\ UNCHANGED <<proxy, pxReq, handler>>
    /\ UNCHANGED <<cur, dbVars, rpcVars, monVars, mainVars>>

\* The response is sent; the next request may arrive.
ProxySent ==
    /\ pxPc = "done"
    /\ pxPc' = "idle" /\ pxReq' = NoRequest /\ handler' = "none"
    /\ outbound' = <<>> /\ upstream' = <<>> /\ pxResp' = NoHttpResponse
    /\ UNCHANGED proxy
    /\ UNCHANGED <<cur, dbVars, rpcVars, monVars, mainVars>>

(***************************************************************************)
(* SystemMonitor.  A start_monitoring coroutine is [pc, last]: pc is        *)
(* "none" (not created), "created" (a task that has not run yet), "sleep"   *)
(* (in asyncio.sleep), "ready" (the sleep is over, the task is to resume),  *)
(* "done" (the loop ended), "failed" (an exception left the coroutine),     *)
(* "cancelling" (cancel() was called on the task) or "cancelled"; last is   *)
(* the outcome of its latest iteration.                                     *)
(***************************************************************************)
Loops == 1..MaxLoops

Times == 1..MaxTime

Loop(pc, last) == [pc |-> pc, last |-> last]

\* SystemMonitor.__init__, and no start_monitoring coroutine yet.
MonitorNew ==
    /\ monitoring = FALSE
    /\ loops = [l \in Loops |-> Loop("none", "none")]

\* What psutil gives an iteration: a reading, or an exception (ok FALSE).
Readings ==
    {[ok |-> TRUE, cpu |-> 10, mem |-> 30, used |-> 4194304],
     [ok |-> FALSE, cpu |-> 0, mem |-> 0, used |-> 0]}

\* The try block of one iteration: the reading, then insert_metrics.
iteration(d, reading, now) ==
    IF ~reading.ok THEN [last |-> "sample_failed", db |-> d]
    ELSE LET memory_mb == (reading.used \div 1024) \div 1024
             r == insert_metrics(d, now, reading.cpu, reading.mem, memory_mb)
         IN  [last |-> IF r.ok THEN "written" ELSE "write_failed", db |-> r.db]

\* after_iteration without the `except Exception`: a failed iteration ends
\* the coroutine.
after_iteration_uncaught(last) ==
    IF last \in {"sample_failed", "write_failed"} THEN "failed" ELSE "sleep"

\* `except Exception` around the iteration, then asyncio.sleep: whatever
\* the outcome, the coroutine goes to sleep.
after_iteration(last) == "sleep"

\* loop_continues as `while True`: the flag is not read.
loop_forever(flag) == TRUE

\* `while self.monitoring`
loop_continues(flag) == flag

\* asyncio.create_task(monitor.start_monitoring()) by a harness.
CreateTask(l) ==
    /\ loops[l].pc = "none"
    /\ \A k \in Loops : k < l => loops[k].pc # "none"
    /\ loops' = [loops EXCEPT ![l].pc = "created"]
    /\ UNCHANGED <<cur, dbVars, rpcVars, monitoring, mainVars, proxyVars>>

\* LoopStart without `self.monitoring = True`: the flag is read as it was
\* left, and a loop started after stop_monitoring() ends at once.
LoopStartKeepsFlag(l) ==
    /\ loops[l].pc = "created" /\ cur = "idle"
    /\ monitoring' = monitoring
    /\ IF loop_continues(monitoring)
       THEN \E reading \in Readings, now \in Times :
               LET it == iteration(db, reading, now) IN
               /\ db' = it.db
               /\ loops' = [loops EXCEPT ![l] = Loop(after_iteration(it.last), it.last)]
       ELSE /\ loops' = [loops EXCEPT ![l].pc = "done"]
            /\ db' = db
    /\ UNCHANGED <<cur, opens, closes, rpcVars, mainVars, proxyVars>>

\* The task runs for the first time: the flag is set, the loop is entered
\* and the first iteration runs up to its sleep.
LoopStart(l) ==
    /\ loops[l].pc = "created" /\ cur = "idle"
    /\ monitoring' = TRUE
    /\ \E reading \in Readings, now \in Times :
          LET it == iteration(db, reading, now) IN
          /\ db' = it.db
          /\ loops' = [loops EXCEPT ![l] = Loop(after_iteration(it.last), it.last)]
    /\ UNCHANGED <<cur, opens, closes, rpcVars, mainVars, proxyVars>>

\* The timer of asyncio.sleep fires.
SleepElapsed(l) ==
    /\ loops[l].pc = "sleep"
    /\ loops' = [loops EXCEPT ![l].pc = "ready"]
    /\ UNCHANGED <<cur, dbVars, rpcVars, monitoring, mainVars, proxyVars>>

\* LoopIterate run whenever the sleep is over, whichever task holds the
\* event loop: as if the `query` handler suspended at its await.
LoopIterateUnscheduled(l) ==
    /\ loops[l].pc = "ready"
    /\ IF loop_continues(monitoring)
       THEN \E reading \in Readings, now \in Times :
               LET it == iteration(db, reading, now) IN
               /\ db' = it.db
               /\ loops' = [loops EXCEPT ![l] = Loop(after_iteration(it.last), it.last)]
       ELSE /\ loops' = [loops EXCEPT ![l].pc = "done"]
            /\ db' = db
    /\ UNCHANGED <<cur, opens, closes, rpcVars, monitoring, mainVars, proxyVars>>

\* The task resumes after its sleep: the loop condition, then either the
\* next iteration up to its sleep, or the end of the coroutine.
LoopIterate(l) ==
    /\ loops[l].pc = "ready" /\ cur = "idle"
    /\ IF loop_continues(monitoring)
       THEN \E reading \in Readings, now \in Times :
               LET it == iteration(db, reading, now) IN
               /\ db' = it.db
               /\ loops' = [loops EXCEPT ![l] = Loop(after_iteration(it.last), it.last)]
       ELSE /\ loops' = [loops EXCEPT ![l].pc = "done"]
            /\ db' = db
    /\ UNCHANGED <<cur, opens, closes, rpcVars, monitoring, mainVars, proxyVars>>

\* stop_monitoring() called by a harness.
StopMonitoring ==
    /\ monitoring
    /\ cur = "idle"
    /\ monitoring' = FALSE
    /\ UNCHANGED <<cur, dbVars, rpcVars, loops, mainVars, proxyVars>>

(***************************************************************************)
(* The monitor on a store, driven by a harness that creates tasks and      *)
(* calls stop_monitoring at any time.                                      *)
(***************************************************************************)
InitMonitor ==
    /\ cur = "idle"
    /\ db = DuckDBManager(NewFile)
    /\ opens = 1 /\ closes = 0
    /\ RpcIdle
    /\ MonitorNew
    /\ mainPc = "none" /\ shutdown = FALSE
    /\ proxy = ProxyHandler(<<"http://u", "/">>) /\ ProxyIdle

NextMonitor ==
    \/ \E l \in Loops : CreateTask(l)
    \/ \E l \in Loops : LoopStart(l)
    \/ \E l \in Loops : SleepElapsed(l)
    \/ \E l \in Loops : LoopIterate(l)
    \/ StopMonitoring

SpecMonitor == InitMonitor /\ [][NextMonitor]_vars

\* The event loop runs every task that is ready and fires every timer.
FairSpecMonitor ==
    /\ SpecMonitor
    /\ \A l \in Loops : WF_vars(LoopStart(l))
    /\ \A l \in Loops : WF_vars(SleepElapsed(l))
    /\ \A l \in Loops : WF_vars(LoopIterate(l))

(***************************************************************************)
(* The dispatcher on a store, without the monitor: the application that    *)
(* create_app builds, driven by requests.                                  *)
(***************************************************************************)

InitRpc ==
    /\ cur = "idle"
    /\ db \in {DuckDBManager(f) : f \in Files}
    /\ opens = 1 /\ closes = 0
    /\ RpcIdle
    /\ MonitorNew
    /\ mainPc = "none" /\ shutdown = FALSE
    /\ proxy = ProxyHandler(<<"http://u", "/">>) /\ ProxyIdle

NextRpc ==
    \/ \E body \in RpcBodies : RpcArrive(body)
    \/ RpcRead
    \/ RpcElement
    \/ RpcHandlerReturn
    \/ RpcRespond
    \/ RpcSent

SpecRpc == InitRpc /\ [][NextRpc]_vars

(***************************************************************************)
(* The application's HTTP surface for requests the router resolves: the   *)
(* router and the proxy, for every upstream base URL.                      *)
(***************************************************************************)
InitProxy ==
    /\ cur = "idle"
    /\ db = DuckDBManager(NewFile)
    /\ opens = 1 /\ closes = 0
    /\ RpcIdle
    /\ MonitorNew
    /\ mainPc = "none" /\ shutdown = FALSE
    /\ \E remote_url \in Bases : proxy = ProxyHandler(remote_url)
    /\ ProxyIdle

NextProxy ==
    \/ \E request \in InboundRequests : HttpArrive(request)
    \/ RoutedAway
    \/ ProxyForward
    \/ UpstreamAnswers
    \/ ProxySent

SpecProxy == InitProxy /\ [][NextProxy]_vars

(***************************************************************************)
(* The store driven directly, as the tests drive it: DuckDBManager opened  *)
(* again on the same path, insert_metrics called with given values, and    *)
(* SELECT * FROM system_metrics sent through the `query` method.           *)
(***************************************************************************)
CpuValues == {10, 20}

\* db_manager.insert_metrics(cpu_percent, memory_percent, memory_mb), called
\* between requests, on a store that has room for the row.
StoreInsert(now, cpu_percent, memory_percent, memory_mb) ==
    /\ cur = "idle"
    /\ Len(db.rows) < MaxRows
    /\ db' = insert_metrics(db, now, cpu_percent, memory_percent, memory_mb).db
    /\ UNCHANGED <<cur, opens, closes, rpcVars, monVars, mainVars, proxyVars>>

\* DuckDBManager(db_path) once more on the path of the open store.
StoreOpen ==
    /\ cur = "idle"
    /\ opens < MaxOpens
    /\ db' = DuckDBManager(db)
    /\ opens' = opens + 1
    /\ UNCHANGED <<cur, closes, rpcVars, monVars, mainVars, proxyVars>>

InitStore ==
    /\ cur = "idle"
    /\ \E file \in Files : db = DuckDBManager(file)
    /\ opens = 1 /\ closes = 0
    /\ RpcIdle
    /\ MonitorNew
    /\ mainPc = "none" /\ shutdown = FALSE
    /\ proxy = ProxyHandler(<<"http://u", "/">>) /\ ProxyIdle

NextStore ==
    \/ \E now \in Times, cpu_percent \in CpuValues :
          StoreInsert(now, cpu_percent, 30, 4)
    \/ StoreOpen
    \/ RpcArrive(Body("single", <<Query(SqlSelectMetrics, AllKeys)>>))
    \/ RpcRead
    \/ RpcElement
    \/ RpcHandlerReturn
    \/ RpcRespond
    \/ RpcSent

SpecStore == InitStore /\ [][NextStore]_vars

(***************************************************************************)
(* main(): the process.  mainPc is "start", "setup" (the store, the        *)
(* monitor task and the application exist; site.start() is awaited),       *)
(* "serving" (shutdown_event.wait()), "await_task" (the finally block      *)
(* awaits monitor_task), "cleanup" (runner.cleanup() waits for the         *)
(* requests in flight) or "done".                                          *)
(***************************************************************************)
\* monitor_task.cancel(): a task that has not finished is to be cancelled
\* at its await.
cancel(loop) ==
    IF loop.pc \in {"created", "sleep", "ready"}
    THEN [loop EXCEPT !.pc = "cancelling"] ELSE loop

\* main() up to its first await: DuckDBManager(args.db_path),
\* SystemMonitor(db_manager), create_task(monitor.start_monitoring()),
\* create_app.
MainStart ==
    /\ mainPc = "start" /\ cur = "idle"
    /\ db' = DuckDBManager(db)
    /\ opens' = opens + 1
    /\ monitoring' = FALSE
    /\ loops' = [loops EXCEPT ![1].pc = "created"]
    /\ mainPc' = "setup"
    /\ UNCHANGED <<cur, closes, rpcVars, shutdown, proxyVars>>

\* site.start() returns: the listener accepts requests and main() waits
\* for the shutdown event.
MainServe ==
    /\ mainPc = "setup" /\ cur = "idle"
    /\ mainPc' = "serving"
    /\ UNCHANGED <<cur, dbVars, rpcVars, monVars, shutdown, proxyVars>>

\* signal_handler: SIGINT or SIGTERM sets the shutdown event.
Signal ==
    /\ mainPc \in {"setup", "serving"} /\ ~shutdown
    /\ shutdown' = TRUE
    /\ UNCHANGED <<cur, dbVars, rpcVars, monVars, mainPc, proxyVars>>

\* The finally block up to `await monitor_task`, entered when the shutdown
\* event is set or when site.start() raised: stop_monitoring(), then
\* monitor_task.cancel().
MainFinally ==
    /\ cur = "idle"
    /\ (mainPc = "serving" /\ shutdown) \/ mainPc = "setup"
    /\ monitoring' = FALSE
    /\ loops' = [loops EXCEPT ![1] = cancel(@)]
    /\ mainPc' = "await_task"
    /\ UNCHANGED <<cur, dbVars, rpcVars, shutdown, proxyVars>>

\* CancelledError is thrown into the coroutine at its await (or the task
\* is cancelled before it ever ran).
LoopCancelled(l) ==
    /\ loops[l].pc = "cancelling" /\ cur = "idle"
    /\ loops' = [loops EXCEPT ![l].pc = "cancelled"]
    /\ UNCHANGED <<cur, dbVars, rpcVars, monitoring, mainVars, proxyVars>>

\* `await monitor_task` returns or raises CancelledError, which is passed
\* over; runner.cleanup() is awaited.
MainCleanup ==
    /\ mainPc = "await_task" /\ cur = "idle"
    /\ loops[1].pc \in {"cancelled", "done"}
    /\ mainPc' = "cleanup"
    /\ UNCHANGED <<cur, dbVars, rpcVars, monVars, shutdown, proxyVars>>

\* runner.cleanup() returns once no request is in flight; main() returns.
MainDone ==
    /\ mainPc = "cleanup" /\ cur = "idle"
    /\ rpcPc = "idle"
    /\ mainPc' = "done"
    /\ UNCHANGED <<cur, dbVars, rpcVars, monVars, shutdown, proxyVars>>

\* The request bodies sent to the running process.
AppBodies ==
    {Body("single", <<Query(q, AllKeys)>>) :
        q \in {SqlSelectMetrics, SqlDelete, SqlBegin}}
    \cup {Body("batch", <<Query(SqlSelectMetrics, AllKeys), Query(SqlBad, AllKeys)>>),
          Body("batch", <<Query(SqlSelectMetrics, AllKeys),
                          Query(SqlSelectMetrics, AllKeys)>>)}

\* A request is accepted while the listener is up.
AppRpcArrive(body) ==
    /\ mainPc = "serving"
    /\ RpcArrive(body)

Init ==
    /\ cur = "idle"
    /\ db \in Files
    /\ opens = 0 /\ closes = 0
    /\ RpcIdle
    /\ MonitorNew
    /\ mainPc = "start" /\ shutdown = FALSE
    /\ proxy = ProxyHandler(<<"http://u", "/">>) /\ ProxyIdle

Next ==
    \/ MainStart
    \/ MainServe
    \/ Signal
    \/ MainFinally
    \/ MainCleanup
    \/ MainDone
    \/ LoopStart(1)
    \/ SleepElapsed(1)
    \/ LoopIterate(1)
    \/ LoopCancelled(1)
    \/ \E body \in AppBodies : AppRpcArrive(body)
    \/ RpcRead
    \/ RpcElement
    \/ RpcHandlerReturn
    \/ RpcRespond
    \/ RpcSent

Spec == Init /\ [][Next]_vars

(***************************************************************************)
(* CLAIMS                                                                  *)
(***************************************************************************)
Elem(k) == rpcBody.elems[returned[k].idx]

IsNotification(data) == data.isDict /\ "id" \notin data.has

\* C1 (as claimed): a request object without the key "id" never gets a
\* response object, whether the handler succeeded, failed, or a validation
\* check rejected the request.
C1_NotificationNeverAnswered ==
    \A k \in 1..Len(returned) :
        IsNotification(Elem(k)) => returned[k].resp = <<>>

\* C2 (as claimed): a single request that is an object with jsonrpc "2.0",
\* a string method and the key "id" gets exactly one response object, whose
\* id is the request's id, whatever the handler's outcome or result.
C2_SingleResponseEchoesId ==
    (rpcPc = "done" /\ rpcBody.kind = "single"
        /\ rpcBody.elems[1].isDict
        /\ Get(rpcBody.elems[1], "jsonrpc") = JStr("2.0")
        /\ Get(rpcBody.elems[1], "method").t = "str"
        /\ "id" \in rpcBody.elems[1].has)
    => (/\ httpResp.status = 200
        /\ ~httpResp.isArray
        /\ Len(httpResp.body) = 1
        /\ httpResp.body[1].id = rpcBody.elems[1].id)

\* The responses of the elements that produced one, in element order.
RECURSIVE Produced(_)
Produced(k) ==
    IF k = 0 THEN <<>> ELSE Produced(k - 1) \o returned[k].resp

SameResponse(a, b) ==
    a.kind = b.kind /\ a.code = b.code /\ a.message = b.message /\ a.id = b.id

\* C3 (as claimed): for a non-empty batch the response array holds exactly
\* the responses of the elements that produce one, in request order, and a
\* batch of notifications only is answered 204 without a body.
C3_BatchResponsesInOrder ==
    (rpcPc = "done" /\ rpcBody.kind = "batch" /\ Len(rpcBody.elems) > 0)
    => LET want == Produced(Len(returned)) IN
       /\ (\A i \in 1..Len(rpcBody.elems) : IsNotification(rpcBody.elems[i]))
            => httpResp = NoContent
       /\ want # <<>> =>
            /\ httpResp.isArray
            /\ Len(httpResp.body) = Len(want)
            /\ \A k \in 1..Len(want) : SameResponse(httpResp.body[k], want[k])

\* C4: within one handle_rpc call the handlers are called in array order, the
\* handler of an element is called only after the handler of every earlier
\* element has returned or raised (at most one is running), and a failed
\* element does not keep the later elements from being processed.
C4_BatchSequential ==
    /\ Cardinality(inflight) <= 1
    /\ \A a, b \in 1..Len(invoked) : a < b => invoked[a] < invoked[b]
    /\ \A a \in 1..Len(invoked) :
          invoked[a] \in inflight \/ \E k \in 1..Len(returned) :
                                        returned[k].called /\ returned[k].idx = invoked[a]
    /\ inflight # {} => inflight = {invoked[Len(invoked)]}
    /\ \A k \in 1..Len(returned) : returned[k].idx = k
    /\ rpcPc = "done" /\ rpcBody.kind \in {"single", "batch"} /\ rpcBody.elems # <<>>
          => /\ Len(returned) = Len(rpcBody.elems)
             /\ \A i \in 1..Len(rpcBody.elems) :
                   Validate(rpcBody.elems[i]) = <<>> => returned[i].called

\* C4's case: a batch whose first element's handler failed and whose later
\* element's handler was still called and ran to its end.
C4_Witness ==
    /\ rpcPc = "done" /\ rpcBody.kind = "batch"
    /\ Len(returned) >= 2
    /\ returned[1].called /\ returned[1].out = "error"
    /\ returned[2].called /\ returned[2].out = "ok"

\* The error code and message the claimed order of checks gives an element;
\* code 0 when every check passes.
ClaimedCheck(data) ==
    IF ~data.isDict THEN <<-32600, "Invalid Request">>
    ELSE IF "jsonrpc" \notin data.has \/ data.jsonrpc # JStr("2.0")
    THEN <<-32600, "Invalid Request">>
    ELSE IF "method" \notin data.has \/ data.method.t # "str"
    THEN <<-32600, "Invalid Request">>
    ELSE IF data.method.s \notin methods THEN <<-32601, "Method not found">>
    ELSE IF "params" \in data.has /\ data.params.t \notin {"dict", "list"}
    THEN <<-32602, "Invalid params">>
    ELSE <<0, "">>

\* C10 (as claimed): the first failing check, in the fixed order, decides the
\* error, and the handler is not called when a check fails; an empty array
\* is -32600.
C10_FirstFailingCheckDecides ==
    /\ \A k \in 1..Len(returned) :
          LET want == ClaimedCheck(Elem(k)) IN
          want[1] # 0 =>
             /\ ~returned[k].called
             /\ returned[k].resp # <<>> =>
                   /\ returned[k].resp[1].kind = "error"
                   /\ returned[k].resp[1].code = want[1]
                   /\ returned[k].resp[1].message = want[2]
    /\ (rpcPc = "done" /\ rpcBody = Body("batch", <<>>))
          => httpResp = error_response(JNull, -32600, "Invalid Request")

\* The step is the first run of a start_monitoring coroutine.
StartStep == \E l \in Loops : loops[l].pc = "created" /\ loops'[l].pc # "created"

\* C5: from stop_monitoring() until start_monitoring() is entered again, no
\* loop writes to the store, and a loop that wakes from the sleep it was in
\* when stop_monitoring() was called ends without another iteration.
C5_StoppedSamplerWritesNothing ==
    [][(~monitoring /\ ~StartStep) =>
          /\ db'.rows = db.rows
          /\ \A l \in Loops :
                (loops[l].pc = "ready" /\ loops'[l] # loops[l]) => loops'[l].pc = "done"
      ]_vars

\* C5's case: a loop that wrote, was stopped while asleep, and has ended.
C5_Witness ==
    \E l \in Loops :
        /\ loops[l].pc = "done" /\ loops[l].last = "written"
        /\ ~monitoring /\ Len(db.rows) >= 1

\* C8: an iteration that runs while the flag is set always ends in the
\* sleep, failed or not; and a loop that stays started with the flag set
\* from some point on wakes and iterates again and again.
C8_FailedIterationKeepsLoop ==
    /\ [][\A l \in Loops :
            (loops[l].pc \in {"created", "ready"} /\ loops'[l] # loops[l] /\ monitoring')
                => loops'[l].pc = "sleep"]_vars
    /\ \A l \in Loops :
          <>[](monitoring /\ loops[l].pc \notin {"none", "created", "done"})
             => ([]<>(loops[l].pc = "ready") /\ []<>(loops[l].pc = "sleep"))

\* C8's case: an iteration failed, the loop slept, and the sleep is over
\* with the flag still set.
C8_Witness ==
    \E l \in Loops :
        /\ loops[l].pc = "ready" /\ monitoring
        /\ loops[l].last \in {"sample_failed", "write_failed"}

\* C6 (as claimed): insert_metrics and execute_query each run as one
\* statement plus one commit without suspending, so whenever the event loop
\* may switch tasks no store operation has left a transaction open.
C6_NoOpenTransaction == db.inTxn = FALSE

\* C7 (as claimed): at shutdown the monitor is stopped and its task has
\* ended before the store is closed, and over the life of the process the
\* store is opened exactly once and closed exactly once.
C7_StoreClosedOnceAtShutdown ==
    /\ opens <= 1 /\ closes <= 1
    /\ closes > 0 => (~monitoring /\ loops[1].pc \in {"cancelled", "done"})
    /\ mainPc = "done" => (opens = 1 /\ closes = 1 /\ db.conn = "closed")

IsPrefix(a, b) == Len(a) <= Len(b) /\ SubSeq(b, 1, Len(a)) = a

\* The step ends a _handle_single_request call.
RequestReturns == Len(returned') = Len(returned) + 1

\* The SQL text of the request whose call the step ends (<<>> if none).
ReturningSql == Get(rpcBody.elems[returned'[Len(returned')].idx], "params").sql

SelectSqls == {SqlSelect1, SqlSelectMetrics, SqlSelectDate, SqlSelectDecimal}

\* C9 (as claimed): the metrics table is append-only: no step removes or
\* changes a row, and no RPC call adds, changes or removes one.
C9_AppendOnly ==
    [][/\ IsPrefix(db.rows, db'.rows)
       /\ RequestReturns => db'.rows = db.rows]_vars

\* C9 (amended): a change of the table that is not made by an RPC call is
\* one row appended by the sampler, the rows before it unchanged; and an
\* RPC `query` call whose SQL is a SELECT leaves the table as it is.
C9_AppendOnlyButForQueries ==
    [][/\ (~RequestReturns /\ db'.rows # db.rows) =>
             /\ Len(db'.rows) = Len(db.rows) + 1
             /\ IsPrefix(db.rows, db'.rows)
             /\ \E l \in Loops : loops'[l] # loops[l] /\ loops'[l].last = "written"
       /\ (RequestReturns /\ ReturningSql \in {<<q>> : q \in SelectSqls})
             => db'.rows = db.rows]_vars

\* C9's case: the sampler has written on top of an earlier row, and a
\* SELECT on the metrics table has returned both rows.
C9_Witness ==
    /\ \E l \in Loops : loops[l].last = "written"
    /\ Len(db.rows) >= 2
    /\ \E k \in 1..Len(returned) :
          /\ returned[k].called /\ returned[k].out = "ok"
          /\ Get(Elem(k), "params").sql = <<SqlSelectMetrics>>
          /\ returned[k].resp # <<>>
          /\ Len(returned[k].resp[1].result.rows) >= 2

\* The calls of _handle_single_request that called the handler for a
\* request carrying the key "id".
AnsweredCalls == {k \in 1..Len(returned) : returned[k].called /\ "id" \in Elem(k).has}

\* C11: for a validated request with an id the handler's outcome decides
\* the one response object: success gives a result with the request's id,
\* the invalid-params condition gives -32602 with the condition's message,
\* any other failure (a failed store query too) gives -32603 with the
\* failure's text; and every handler that was called has returned into the
\* dispatcher by the time handle_rpc answers.
C11_HandlerOutcomeDecidesResponse ==
    /\ \A k \in AnsweredCalls :
          /\ Len(returned[k].resp) = 1
          /\ returned[k].resp[1].id = Get(Elem(k), "id")
          /\ returned[k].out = "ok" =>
                (returned[k].resp[1].kind = "result" /\ returned[k].resp[1].code = 0)
          /\ returned[k].out = "invalid_params" =>
                /\ returned[k].resp[1].kind = "error"
                /\ returned[k].resp[1].code = -32602
                /\ returned[k].resp[1].message = "Invalid params: 'sql' parameter is required"
          /\ returned[k].out = "error" =>
                /\ returned[k].resp[1].kind = "error"
                /\ returned[k].resp[1].code = -32603
                /\ returned[k].resp[1].message = "Query execution failed"
    /\ rpcPc = "done" =>
          \A n \in 1..Len(invoked) :
              \E k \in 1..Len(returned) : returned[k].called /\ returned[k].idx = invoked[n]

\* C11's case: one batch in which a query succeeded, one failed in the
\* store and one raised the invalid-params condition, each with an id.
C11_Witness ==
    /\ rpcPc = "done"
    /\ \E a, b, c \in AnsweredCalls :
          /\ returned[a].out = "ok"
          /\ returned[b].out = "error"
          /\ returned[c].out = "invalid_params"

\* C12 (as claimed): a body that cannot be parsed as JSON, whatever makes
\* the parse fail, is answered with -32700 "Parse error" and id null, and
\* no handler is called.
C12_UnparsableBodyIsParseError ==
    (rpcPc = "done" /\ rpcBody.kind \in {"badjson", "badtext"})
        => (httpResp = error_response(JNull, -32700, "Parse error") /\ invoked = <<>>)

\* A fault of handle_rpc outside _handle_single_request: request.json()
\* raised something other than JSONDecodeError, or a collected response
\* cannot be serialized.
DispatcherFault ==
    \/ rpcBody.kind = "badtext"
    \/ /\ rpcBody.kind \in {"single", "batch"}
       /\ \E i \in 1..Len(responses) : ~CanDump(responses[i])

\* C13: handle_rpc always returns a response, and a fault outside the
\* per-request handling is answered with -32603 "Internal error", id null.
C13_DispatcherFaultIsInternalError ==
    rpcPc = "done" =>
        /\ httpResp.status \in {200, 204}
        /\ DispatcherFault => httpResp = error_response(JNull, -32603, "Internal error")

\* C13's case: a batch in which one element's result cannot be serialized
\* has been answered.
C13_Witness ==
    /\ rpcPc = "done" /\ rpcBody.kind = "batch" /\ Len(responses) >= 2
    /\ \E i \in 1..Len(responses) : ~CanDump(responses[i])
    /\ httpResp.body[1].code = -32603

\* C14 (as claimed): a `query` request with an id whose params is an
\* object without "sql" is answered with -32602 and the message exactly
\* "Invalid params", and the store is not queried.
C14_MissingSqlIsInvalidParams ==
    \A k \in AnsweredCalls :
        (Get(Elem(k), "params").t = "dict" /\ Get(Elem(k), "params").sql = <<>>)
            => /\ returned[k].out = "invalid_params"
               /\ returned[k].resp =
                     <<error_dict(Get(Elem(k), "id"), -32602, "Invalid params")>>

\* C15: routing is a function of method and path: the request goes to the
\* RPC dispatcher exactly when it is POST with the path /rpc, and to the
\* proxy forwarder in every other case; a request routed to the dispatcher
\* sends nothing upstream, and one routed to the proxy starts no handle_rpc.
C15_RoutingByMethodAndPath ==
    pxPc # "idle" =>
        /\ handler \in {"handle_rpc", "handle_proxy"}
        /\ handler = "handle_rpc" <=>
              (pxReq.method = "POST" /\ pxReq.path = <<"/", "rpc">>)
        /\ handler = "handle_rpc" => (outbound = <<>> /\ pxResp = NoHttpResponse)
        /\ handler = "handle_proxy" => rpcPc = "idle"

\* C15's case: a GET on /rpc has been answered by the proxy forwarder.
C15_Witness ==
    /\ pxPc = "done" /\ handler = "handle_proxy"
    /\ pxReq.method = "GET" /\ pxReq.path = <<"/", "rpc">>
    /\ Len(outbound) = 1

\* Forwarding failed: the inbound body could not be read, the upstream
\* request raised, or the upstream body could not be read.
ForwardingFailed ==
    \/ pxReq.body # <<>> /\ ~pxReq.readable
    \/ \E i \in 1..Len(upstream) :
          upstream[i].kind # "response" \/ ~upstream[i].readable

\* C16: handle_proxy always returns a response and sends at most one
\* request upstream; when forwarding failed in any way the response is 502
\* with a text body describing the error.
C16_UpstreamFailureIs502 ==
    /\ Len(outbound) <= 1
    /\ (pxPc = "done") =>
          /\ pxResp # NoHttpResponse
          /\ ForwardingFailed =>
                /\ pxResp.status = 502
                /\ pxResp.body.coding = "text"
                /\ pxResp.body.data[1] = "Proxy error: "

\* C16's case: the upstream request raised an exception that is not an
\* aiohttp.ClientError, and the caller got 502.
C16_Witness ==
    /\ pxPc = "done" /\ Len(upstream) = 1 /\ upstream[1].kind = "exception"
    /\ pxResp.status = 502

\* C17: one upstream request per inbound request, and the caller gets the
\* status of the upstream response, a 3xx included.
C17_RedirectsNotFollowed ==
    /\ Len(outbound) <= 1 /\ Len(upstream) <= 1
    /\ (pxPc = "done" /\ Len(upstream) = 1
            /\ upstream[1].kind = "response" /\ upstream[1].readable)
          => pxResp.status = upstream[1].status

\* C17's case: upstream answered 302 and the caller got 302.
C17_Witness ==
    /\ pxPc = "done" /\ Len(upstream) = 1 /\ upstream[1].status = 302
    /\ pxResp.status = 302 /\ Len(outbound) = 1

\* C18 (as claimed): the relayed response carries the upstream body as it
\* was sent, and every upstream header field but Content-Encoding,
\* Content-Length and Transfer-Encoding, each occurrence of a repeated
\* name included.
C18_ResponseRelayedVerbatim ==
    (pxPc = "done" /\ Len(upstream) = 1
        /\ upstream[1].kind = "response" /\ upstream[1].readable)
      => /\ pxResp.body = upstream[1].body
         /\ pxResp.headers = SelectSeq(upstream[1].headers, IsResponseHeaderCopied)

\* C19 (as claimed): the outbound request carries every inbound header
\* field but Host and Content-Length, each occurrence of a repeated name
\* included, and the inbound method and body.
C19_RequestHeadersCopied ==
    \A i \in 1..Len(outbound) :
        /\ outbound[i].headers = SelectSeq(pxReq.headers, IsRequestHeaderCopied)
        /\ outbound[i].method = pxReq.method
        /\ outbound[i].data = pxReq.body

\* The text without the "/" it ends in.
Stripped(b) ==
    CHOOSE t \in {SubSeq(b, 1, n) : n \in 0..Len(b)} :
        /\ t = <<>> \/ t[Len(t)] # "/"
        /\ \A i \in (Len(t) + 1)..Len(b) : b[i] = "/"

\* C20: the target URL is the configured base without its trailing slash,
\* followed by the inbound path and query string as they came, and the
\* base does not change while the handler lives.
C20_TargetUrl ==
    /\ [](\A i \in 1..Len(outbound) :
             outbound[i].url = Stripped(proxy.arg) \o pxReq.path \o pxReq.qs)
    /\ [][proxy' = proxy]_vars

\* C20's case: base http://u/ and /foo?x=1 have given http://u/foo?x=1.
C20_Witness ==
    /\ proxy.arg = <<"http://u", "/">>
    /\ Len(outbound) = 1
    /\ pxReq.path = <<"/", "foo">> /\ pxReq.qs = <<"?", "x=1">>
    /\ outbound[1].url = <<"http://u", "/", "foo", "?", "x=1">>

\* The row a SELECT * returns for a stored row: the timestamp as text, the
\* three numbers as they are.
AsReturned(row) ==
    <<Cell("str", row[1].v), row[2], row[3], row[4]>>

\* C21: an insert_metrics call adds exactly one row, after the rows there
\* were, holding the three inserted numbers; and SELECT * on the metrics
\* table returns every stored row, in insertion order, each with its three
\* numbers and its timestamp as text.
C21_InsertThenQueryRoundTrip ==
    [][/\ \A now \in Times, cpu_percent \in CpuValues :
             StoreInsert(now, cpu_percent, 30, 4) =>
                /\ Len(db'.rows) = Len(db.rows) + 1
                /\ IsPrefix(db.rows, db'.rows)
                /\ db'.rows[Len(db'.rows)][1] = Cell("datetime", now)
                /\ db'.rows[Len(db'.rows)][2] = Cell("float", cpu_percent)
                /\ db'.rows[Len(db'.rows)][3] = Cell("float", 30)
                /\ db'.rows[Len(db'.rows)][4] = Cell("float", 4)
       /\ (RequestReturns /\ ReturningSql = <<SqlSelectMetrics>>) =>
             /\ returned'[Len(returned')].out = "ok"
             /\ returned'[Len(returned')].resp[1].result.rows =
                   [i \in 1..Len(db.rows) |-> AsReturned(db.rows[i])]
      ]_vars

\* C21's case: two rows were inserted with different values and a SELECT *
\* has returned both, in insertion order, in the HTTP response.
C21_Witness ==
    /\ rpcPc = "done" /\ Len(db.rows) = 2
    /\ db.rows[1][2] = Cell("float", 20) /\ db.rows[2][2] = Cell("float", 10)
    /\ httpResp.status = 200
    /\ httpResp.body[1].result.rows =
          [i \in 1..2 |-> AsReturned(db.rows[i])]

\* C22: opening the store again on the same path succeeds and leaves the
\* metrics table there with the rows it had.
C22_OpenTwiceKeepsTable ==
    [][opens' = opens + 1 =>
          /\ db'.conn = "open" /\ db'.hasTable
          /\ db'.rows = db.rows]_vars

\* C22's case: the store holding rows has been opened a second time.
C22_Witness == opens = 2 /\ Len(db.rows) = 2

\* C23 (as claimed): a successful handler result is always serialized:
\* decimals as floating-point numbers, every temporal value (timestamp,
\* date, time) as text, so the request is answered with the result and
\* never with an error.
C23_ResultSerializedUniformly ==
    (rpcPc = "done" /\ rpcBody.kind = "single" /\ Len(returned) = 1
        /\ returned[1].called /\ returned[1].out = "ok" /\ "id" \in Elem(1).has)
      => /\ Len(httpResp.body) = 1
         /\ httpResp.body[1].kind = "result"
         /\ \A i \in 1..Len(httpResp.body[1].result.rows) :
               \A j \in 1..Len(httpResp.body[1].result.rows[i]) :
                   LET sent == httpResp.body[1].result.rows[i][j]
                       had == returned[1].resp[1].result.rows[i][j]
                   IN  /\ sent.ty \in NativeJson
                       /\ had.ty = "decimal" => sent.ty = "float"
                       /\ had.ty \in {"datetime", "date", "time"} => sent.ty = "str"

\* The number of times the handler was called for element i.
Calls(i) == Cardinality({n \in 1..Len(invoked) : invoked[n] = i})

\* C24: the handler is called exactly once for every request that passes
\* the validation, a notification included, and never for one that fails
\* it; a notification's handler has run to its end, with its effect on the
\* store, when the response is suppressed.
C24_HandlerCalledOncePerValidRequest ==
    /\ \A i \in 1..Len(rpcBody.elems) :
          /\ Calls(i) <= 1
          /\ Calls(i) = 1 => Validate(rpcBody.elems[i]) = <<>>
    /\ rpcPc = "done" =>
          \A i \in 1..Len(rpcBody.elems) :
              Validate(rpcBody.elems[i]) = <<>> =>
                  /\ Calls(i) = 1
                  /\ \E k \in 1..Len(returned) :
                        returned[k].idx = i /\ returned[k].called
    /\ \A k \in 1..Len(returned) :
          (Validate(Elem(k)) = <<>> /\ IsNotification(Elem(k))) =>
              /\ returned[k].called
              /\ returned[k].out \in {"ok", "invalid_params", "error"}
              /\ returned[k].resp = <<>>
              /\ (returned[k].out = "ok" /\ Get(Elem(k), "params").sql = <<SqlBegin>>)
                    => db.inTxn

\* C24's case: a notification whose statement opens a transaction was
\* answered 204, and the transaction is open.
C24_Witness ==
    /\ rpcPc = "done" /\ rpcBody.kind = "single"
    /\ IsNotification(rpcBody.elems[1])
    /\ invoked = <<1>> /\ db.inTxn
    /\ httpResp = NoContent

\* C25: from the moment handle_rpc has its parsed batch until it builds the
\* response, no sampler iteration runs (a sleep may end, the woken loop
\* waits) and nothing but the batch's own statements changes the store, so
\* two SELECTs of one batch see the same rows.
C25_NoSamplerWriteInsideBatch ==
    /\ [][(rpcPc \in {"loop", "handler"}) =>
             ((\A l \in Loops :
                   loops'[l] # loops[l] =>
                       (loops[l].pc = "sleep" /\ loops'[l] = [loops[l] EXCEPT !.pc = "ready"]))
              /\ (db' # db => RequestReturns))]_vars
    /\ [](\A k, m \in 1..Len(returned) :
             (returned[k].called /\ returned[m].called
                 /\ returned[k].out = "ok" /\ returned[m].out = "ok"
                 /\ Get(Elem(k), "params").sql = <<SqlSelectMetrics>>
                 /\ Get(Elem(m), "params").sql = <<SqlSelectMetrics>>)
               => returned[k].resp = returned[m].resp)

\* C25's case: between the two queries of a batch the sampler's sleep is
\* over and the flag is set, and the sampler has not run.
C25_Witness ==
    /\ rpcBody.kind = "batch" /\ rpcPc = "loop" /\ Len(returned) = 1
    /\ rpcIdx = 2
    /\ monitoring /\ loops[1].pc = "ready"
    /\ Len(db.rows) < MaxRows

\* C26: stop_monitoring() changes the flag and nothing else, so it does not
\* reach a loop that has not run yet: start_monitoring(), whenever it first
\* runs, sets the flag and goes through an iteration to its sleep, even
\* after a stop; and a loop that wakes while the flag is set iterates again,
\* whichever start set it, so a start after a stop re-arms a loop that was
\* still asleep.
C26_StartOverwritesStop ==
    [][/\ (monitoring /\ ~monitoring') => loops' = loops
       /\ \A l \in Loops :
             (loops[l].pc = "created" /\ loops'[l].pc # "created")
                => (monitoring' /\ loops'[l].pc = "sleep")
       /\ \A l \in Loops :
             (loops[l].pc = "ready" /\ loops'[l] # loops[l] /\ monitoring)
                => (loops'[l].pc = "sleep" /\ loops'[l].last # "none")
      ]_vars

\* C26's case: two loops are alive with the flag set, and each has written
\* a row.
C26_Witness ==
    /\ monitoring
    /\ \A l \in {1, 2} : loops[l].pc \in {"sleep", "ready"} /\ loops[l].last = "written"
    /\ Len(db.rows) = 2

\* C27: for a request that passed the validation, the key "id" decides:
\* with "id": null the request gets exactly one response, whose id is null;
\* without the key it gets none (204 when it is the whole body).
C27_IdKeyDecidesNotification ==
    /\ \A k \in 1..Len(returned) :
          returned[k].called =>
              /\ ("id" \in Elem(k).has /\ Get(Elem(k), "id") = JNull) =>
                    (Len(returned[k].resp) = 1 /\ returned[k].resp[1].id = JNull)
              /\ "id" \notin Elem(k).has => returned[k].resp = <<>>
    /\ (rpcPc = "done" /\ rpcBody.kind = "single" /\ Validate(rpcBody.elems[1]) = <<>>) =>
          /\ ("id" \in rpcBody.elems[1].has /\ Get(rpcBody.elems[1], "id") = JNull) =>
                /\ httpResp.status = 200 /\ ~httpResp.isArray
                /\ Len(httpResp.body) = 1 /\ httpResp.body[1].id = JNull
          /\ "id" \notin rpcBody.elems[1].has => httpResp = NoContent

\* C27's case: a successful query sent with "id": null was answered with
\* its result and id null.
C27_Witness ==
    /\ rpcPc = "done" /\ rpcBody.kind = "single"
    /\ "id" \in rpcBody.elems[1].has /\ rpcBody.elems[1].id = JNull
    /\ Len(returned) = 1 /\ returned[1].called /\ returned[1].out = "ok"
    /\ httpResp.status = 200
    /\ httpResp.body[1].kind = "result" /\ httpResp.body[1].id = JNull

====
